---- MODULE Spec2Model ----
(***************************************************************************)
(* A model of Code/sdt.py: the signal-detection helpers dprime and         *)
(* trials2counts, the negative log-likelihood fit_meta_d_logL and the      *)
(* meta-d' fit fit_meta_d_MLE.                                             *)
(*                                                                         *)
(* Each function has a call frame (a record variable holding its           *)
(* arguments, its locals and its result) and a specification of its own:   *)
(* SpecDprime, SpecTrials, SpecLogL and SpecMLE.  The frames of the        *)
(* functions a specification does not run stay Idle.                       *)
(*                                                                         *)
(* Numbers.  Counts are Python ints.  A rate (a quotient of two ints) is   *)
(* kept exactly, as a record [n, d] standing for n/d with d > 0.  A float  *)
(* that may be infinite or not-a-number is kept with its IEEE-754 class:   *)
(* see the sections below.  The ratio of standard deviations s is the      *)
(* default, 1 (sdt.py line 253).                                           *)
(***************************************************************************)
EXTENDS Integers, Sequences, FiniteSets, TLC

VARIABLES dp, t2c, ll, mle

vars == <<dp, t2c, ll, mle>>

\* The frame of a function that is not called in the specification at hand.
Idle == [pc |-> "idle"]

-----------------------------------------------------------------------------
(* Bounds of the model.                                                    *)

\* dprime: each of hits, misses, fas, crs ranges over 0..MaxN.
MaxN == 3

\* The number of ratings K (nRatings) ranges over 1..MaxK.
MaxK == 2

\* trials2counts: each input sequence holds at most MaxTrials trials.
MaxTrials == 2

\* fit_meta_d_logL: each type-2 criterion ranges over -MaxCrit..MaxCrit.
MaxCrit == 1

\* Each cell of a count vector ranges over 0..MaxCount.
MaxCount == 1

-----------------------------------------------------------------------------
(* Exact rates and the class of a float.                                   *)

Rat(a, b) == [n |-> a, d |-> b]

\* x == 1 and x == 0 on a rate (d > 0).
IsOne(r) == r.n = r.d
IsZero(r) == r.n = 0

Sign(x) == IF x < 0 THEN "neg" ELSE IF x = 0 THEN "zero" ELSE "pos"

\* The class of norm.ppf(r): not-a-number outside [0, 1], -inf at 0, +inf at
\* 1, finite strictly inside.
PpfClass(r) ==
    IF r.n < 0 \/ r.n > r.d THEN "nan"
    ELSE IF r.n = 0 THEN "ninf"
    ELSE IF r.n = r.d THEN "pinf"
    ELSE "fin"

\* The class of norm.ppf(a) - norm.ppf(b).  norm.ppf is strictly increasing
\* on (0, 1), so the sign of a finite difference is the sign of a - b.
PpfDiff(a, b) ==
    LET ca == PpfClass(a)
        cb == PpfClass(b)
    IN  IF ca = "nan" \/ cb = "nan" THEN "nan"
        ELSE IF ca = "pinf" THEN (IF cb = "pinf" THEN "nan" ELSE "pinf")
        ELSE IF ca = "ninf" THEN (IF cb = "ninf" THEN "nan" ELSE "ninf")
        ELSE IF cb = "pinf" THEN "ninf"
        ELSE IF cb = "ninf" THEN "pinf"
        ELSE Sign(a.n * b.d - b.n * a.d)

IsFiniteClass(c) == c \in {"neg", "zero", "pos"}

-----------------------------------------------------------------------------
(* dprime(hits, misses, fas, crs)                                          *)

\* hits / (hits + misses) on Python ints raises ZeroDivisionError at 0 / 0.
DprimeRaises(hits, misses, fas, crs) ==
    hits + misses = 0 \/ fas + crs = 0

\* The two replacements of a rate: half = 0.5 * total (not 0.5 / total); a
\* rate of 1 becomes 1 - half, and then a rate of 0 becomes half.
FloorCeiling(raw, total) ==
    LET half == Rat(total, 2)
        r1 == IF IsOne(raw) THEN Rat(2 - total, 2) ELSE raw
    IN  IF IsZero(r1) THEN half ELSE r1

DprimeArgs == [hits : 0..MaxN, misses : 0..MaxN, fas : 0..MaxN, crs : 0..MaxN]

InitDprime ==
    /\ dp \in {[pc |-> "called", args |-> a] : a \in DprimeArgs}
    /\ t2c = Idle
    /\ ll = Idle
    /\ mle = Idle

\* The call whose rate computation divides by zero.
DprimeZeroDivision ==
    /\ dp.pc = "called"
    /\ DprimeRaises(dp.args.hits, dp.args.misses, dp.args.fas, dp.args.crs)
    /\ dp' = [pc |-> "raised", args |-> dp.args, exc |-> "ZeroDivisionError"]
    /\ UNCHANGED <<t2c, ll, mle>>

\* The call that returns d'.
DprimeReturn ==
    /\ dp.pc = "called"
    /\ ~DprimeRaises(dp.args.hits, dp.args.misses, dp.args.fas, dp.args.crs)
    /\ LET a == dp.args
           hit_rate == FloorCeiling(Rat(a.hits, a.hits + a.misses),
                                    a.hits + a.misses)
           fa_rate == FloorCeiling(Rat(a.fas, a.fas + a.crs), a.fas + a.crs)
       IN  dp' = [pc |-> "done", args |-> a,
                  raw_hit_rate |-> Rat(a.hits, a.hits + a.misses),
                  raw_fa_rate |-> Rat(a.fas, a.fas + a.crs),
                  hit_rate |-> hit_rate, fa_rate |-> fa_rate,
                  d |-> PpfDiff(hit_rate, fa_rate)]
    /\ UNCHANGED <<t2c, ll, mle>>

NextDprime == DprimeZeroDivision \/ DprimeReturn

SpecDprime == InitDprime /\ [][NextDprime]_vars

Inside01(r) == 0 < r.n /\ r.n < r.d

\* C10: in dprime, whenever hits+misses > 0 and fas+crs > 0, the hit rate and
\* the false-alarm rate handed to the inverse CDF are strictly between 0 and
\* 1 (a raw rate inside (0,1) is used unchanged, a raw rate of 0 or 1 is
\* replaced by a rate inside (0,1)), and the returned d' is finite.
C10_RatesInsideUnitInterval ==
    dp.pc = "done" =>
        /\ Inside01(dp.hit_rate)
        /\ Inside01(dp.fa_rate)
        /\ (Inside01(dp.raw_hit_rate) => dp.hit_rate = dp.raw_hit_rate)
        /\ (Inside01(dp.raw_fa_rate) => dp.fa_rate = dp.raw_fa_rate)
        /\ IsFiniteClass(dp.d)

-----------------------------------------------------------------------------
(* trials2counts(stimID, response, rating, nRatings, padCells)             *)

Min(a, b) == IF a < b THEN a ELSE b

\* zip(stimID, response, rating): the records up to the shortest sequence.
Zip(stimID, response, rating) ==
    [i \in 1..Min(Len(stimID), Min(Len(response), Len(rating))) |->
        [s |-> stimID[i], rp |-> response[i], rt |-> rating[i]]]

\* The test of the length check: `not (a == b) and (a == c)`, in which `not`
\* binds to the first comparison only.
LengthCheckRaises(stimID, response, rating) ==
    /\ ~(Len(stimID) = Len(response))
    /\ Len(stimID) = Len(rating)

\* The filter's test on one record.
InRange(rec, nRatings) ==
    /\ (rec.s = 0 \/ rec.s = 1)
    /\ (rec.rp = 0 \/ rec.rp = 1)
    /\ (rec.rt >= 1 /\ rec.rt <= nRatings)

KeepInRange(recs, nRatings) ==
    LET Keep(rec) == InRange(rec, nRatings)
    IN  SelectSeq(recs, Keep)

\* One pass of the inner loop: the records with this stimulus, response and
\* rating.
RECURSIVE CountLoop(_, _, _, _)
CountLoop(recs, s, rp, r) ==
    IF recs = <<>> THEN 0
    ELSE (IF Head(recs).s = s /\ Head(recs).rp = rp /\ Head(recs).rt = r
          THEN 1 ELSE 0) + CountLoop(Tail(recs), s, rp, r)

\* "S1 responses": for r in range(nRatings, 0, -1), append the count of the
\* records with response 0 and rating r.  Called with r = nRatings.
RECURSIVE S1Responses(_, _, _)
S1Responses(recs, s, r) ==
    IF r < 1 THEN <<>>
    ELSE <<CountLoop(recs, s, 0, r)>> \o S1Responses(recs, s, r - 1)

\* "S2 responses": for r in range(1, nRatings+1), append the count of the
\* records with response 1 and rating r.  Called with r = 1.
RECURSIVE S2Responses(_, _, _, _)
S2Responses(recs, s, r, nRatings) ==
    IF r > nRatings THEN <<>>
    ELSE <<CountLoop(recs, s, 1, r)>> \o S2Responses(recs, s, r + 1, nRatings)

\* The mutant of CountVector: the S1 responses in ascending order of rating.
CountVectorAscending(recs, s, nRatings) ==
    [j \in 1..(2 * nRatings) |->
        IF j <= nRatings THEN CountLoop(recs, s, 0, j)
        ELSE CountLoop(recs, s, 1, j - nRatings)]

\* The count vector of one stimulus class, before padding.
CountVector(recs, s, nRatings) ==
    S1Responses(recs, s, nRatings) \o S2Responses(recs, s, 1, nRatings)

\* padAmount defaults to 1/(2*nRatings): a padded cell is the rate
\* (2*nRatings*n + 1) / (2*nRatings).
Pad(counts, nRatings) ==
    [i \in DOMAIN counts |-> Rat(2 * nRatings * counts[i] + 1, 2 * nRatings)]

Trials2Counts(args) ==
    LET recs == KeepInRange(Zip(args.stimID, args.response, args.rating),
                            args.nRatings)
        c1 == CountVector(recs, 0, args.nRatings)
        c2 == CountVector(recs, 1, args.nRatings)
    IN  IF args.padCells
        THEN <<Pad(c1, args.nRatings), Pad(c2, args.nRatings)>>
        ELSE <<c1, c2>>

\* The docstring's example (lines 117-122).
DocExample ==
    [stimID |-> <<0, 1, 0, 0, 1, 1, 1, 1>>,
     response |-> <<0, 1, 1, 1, 0, 0, 1, 1>>,
     rating |-> <<1, 2, 3, 4, 4, 3, 2, 1>>,
     nRatings |-> 4, padCells |-> FALSE]

\* Trials whose fields may each be out of range: a stimulus or response of
\* 2, a rating of 0 or K+1.
TrialRecords(K) == [s : 0..2, rp : 0..2, rt : 0..(K + 1)]

SeqsUpTo(S, n) == UNION {[1..m -> S] : m \in 0..n}

Args(stimID, response, rating, nRatings, padCells) ==
    [stimID |-> stimID, response |-> response, rating |-> rating,
     nRatings |-> nRatings, padCells |-> padCells]

\* The inputs: sequences of equal lengths holding every combination of
\* trials, without padding; sequences of in-range trials whose lengths are
\* free (and so may differ), with and without padding; the docstring's
\* example.
InitTrials ==
    /\ \/ \E K \in 1..MaxK, n \in 0..MaxTrials :
            \E recs \in [1..n -> TrialRecords(K)] :
                t2c = [pc |-> "called",
                       args |-> Args([i \in 1..n |-> recs[i].s],
                                     [i \in 1..n |-> recs[i].rp],
                                     [i \in 1..n |-> recs[i].rt], K, FALSE)]
       \/ \E K \in 1..MaxK, p \in BOOLEAN :
            \E st \in SeqsUpTo({0, 1}, MaxTrials),
               rp \in SeqsUpTo({0, 1}, MaxTrials),
               rt \in SeqsUpTo({1}, MaxTrials) :
                t2c = [pc |-> "called", args |-> Args(st, rp, rt, K, p)]
       \/ t2c = [pc |-> "called", args |-> DocExample]
    /\ dp = Idle
    /\ ll = Idle
    /\ mle = Idle

\* The length check raises (raise of a str: a TypeError).
T2CRaise ==
    /\ t2c.pc = "called"
    /\ LengthCheckRaises(t2c.args.stimID, t2c.args.response, t2c.args.rating)
    /\ t2c' = [pc |-> "raised", args |-> t2c.args, exc |-> "TypeError"]
    /\ UNCHANGED <<dp, ll, mle>>

\* The call returns nR_S1, nR_S2.
T2CReturn ==
    /\ t2c.pc = "called"
    /\ ~LengthCheckRaises(t2c.args.stimID, t2c.args.response, t2c.args.rating)
    /\ t2c' = [pc |-> "done", args |-> t2c.args,
               nR_S1 |-> Trials2Counts(t2c.args)[1],
               nR_S2 |-> Trials2Counts(t2c.args)[2]]
    /\ UNCHANGED <<dp, ll, mle>>

NextTrials == T2CRaise \/ T2CReturn

SpecTrials == InitTrials /\ [][NextTrials]_vars

RECURSIVE SumSeq(_)
SumSeq(q) == IF q = <<>> THEN 0 ELSE Head(q) + SumSeq(Tail(q))

\* The trials of the call's input with this stimulus, response and rating.
TrialsWith(args, s, rp, rt) ==
    {i \in 1..Len(args.stimID) :
        args.stimID[i] = s /\ args.response[i] = rp /\ args.rating[i] = rt}

EqualLengths(args) ==
    /\ Len(args.stimID) = Len(args.response)
    /\ Len(args.stimID) = Len(args.rating)

\* C8: without padding, for equal-length trial sequences, trials2counts
\* returns two vectors of length 2K; for each rating j in 1..K the cell at
\* 0-based index K-j counts the trials with response 0 and rating j, the cell
\* at 0-based index K+j-1 those with response 1 and rating j (nR_S1 over
\* stimulus 0, nR_S2 over stimulus 1); a trial with a field out of range is
\* counted nowhere, so the cells sum to the number of in-range trials.
C8_CountsLayout ==
    (t2c.pc = "done" /\ ~t2c.args.padCells /\ EqualLengths(t2c.args)) =>
        LET a == t2c.args
            K == a.nRatings
        IN  /\ Len(t2c.nR_S1) = 2 * K
            /\ Len(t2c.nR_S2) = 2 * K
            /\ \A j \in 1..K :
                /\ t2c.nR_S1[K - j + 1] = Cardinality(TrialsWith(a, 0, 0, j))
                /\ t2c.nR_S1[K + j] = Cardinality(TrialsWith(a, 0, 1, j))
                /\ t2c.nR_S2[K - j + 1] = Cardinality(TrialsWith(a, 1, 0, j))
                /\ t2c.nR_S2[K + j] = Cardinality(TrialsWith(a, 1, 1, j))
            /\ SumSeq(t2c.nR_S1) + SumSeq(t2c.nR_S2) =
                   Cardinality({i \in 1..Len(a.stimID) :
                       /\ a.stimID[i] \in {0, 1}
                       /\ a.response[i] \in {0, 1}
                       /\ a.rating[i] \in 1..K})

\* C8's case: a call without padding returned, one of its trials was counted
\* and another, out of range, was not.
C8_Witness ==
    /\ t2c.pc = "done"
    /\ ~t2c.args.padCells
    /\ t2c.args.nRatings = 2
    /\ t2c.args.stimID = <<0, 2>>
    /\ t2c.args.response = <<0, 1>>
    /\ t2c.args.rating = <<2, 1>>
    /\ t2c.nR_S1 = <<1, 0, 0, 0>>

\* C9 as the specification states it: the docstring's example returns
\* nR_S1 = [1,0,0,1,0,0,1,1] and nR_S2 = [0,0,1,1,0,1,0,1].
C9_DocExampleAsStated ==
    (t2c.pc = "done" /\ t2c.args = DocExample) =>
        /\ t2c.nR_S1 = <<1, 0, 0, 1, 0, 0, 1, 1>>
        /\ t2c.nR_S2 = <<0, 0, 1, 1, 0, 1, 0, 1>>

\* C9, amended: the docstring's example (no padding) returns
\* nR_S1 = [0,0,0,1,0,0,1,1] and nR_S2 = [1,1,0,0,1,2,0,0].
C9_DocExampleCounts ==
    (t2c.pc = "done" /\ t2c.args = DocExample) =>
        /\ t2c.nR_S1 = <<0, 0, 0, 1, 0, 0, 1, 1>>
        /\ t2c.nR_S2 = <<1, 1, 0, 0, 1, 2, 0, 0>>

\* C9's case: the call on the docstring's example has returned.
C9_Witness == t2c.pc = "done" /\ t2c.args = DocExample

\* C11: trials2counts raises whenever stimID, response and rating do not all
\* have the same length, whichever of the three differs, and never returns
\* counts computed from sequences of different lengths.
C11_MismatchedLengthsRaise ==
    /\ (t2c.pc = "called" /\ ~EqualLengths(t2c.args)) => ENABLED T2CRaise
    /\ (t2c.pc = "done") => EqualLengths(t2c.args)

-----------------------------------------------------------------------------
(* Floats of fit_meta_d_logL.  A float is a record [k, v, e]: k = "fin" is  *)
(* the number v * 10^e, k = "inf" is +inf (v = 1) or -inf (v = -1), and     *)
(* k = "nan" is not-a-number.  The arithmetic is numpy's on float64: a      *)
(* division by zero, inf - inf and 0 * inf give inf or nan and raise       *)
(* nothing.  Locations (criteria, means) are whole numbers of standard     *)
(* deviations; probabilities are in units of 1/PhiOne.                     *)

Fin(x) == [k |-> "fin", v |-> x, e |-> 0]
Inf(sgn) == [k |-> "inf", v |-> sgn, e |-> 0]
NaN == [k |-> "nan", v |-> 0, e |-> 0]

Sgn(x) == IF x < 0 THEN -1 ELSE IF x = 0 THEN 0 ELSE 1

FNeg(x) == [x EXCEPT !.v = -x.v]

FAdd(x, y) ==
    IF x.k = "nan" \/ y.k = "nan" THEN NaN
    ELSE IF x.k = "inf" /\ y.k = "inf"
         THEN (IF x.v = y.v THEN x ELSE NaN)
    ELSE IF x.k = "inf" THEN x
    ELSE IF y.k = "inf" THEN y
    ELSE Fin(x.v + y.v)

FSub(x, y) == FAdd(x, FNeg(y))

FMul(x, y) ==
    IF x.k = "nan" \/ y.k = "nan" THEN NaN
    ELSE IF x.k = "inf" \/ y.k = "inf"
         THEN (IF x.v = 0 \/ y.v = 0 THEN NaN ELSE Inf(Sgn(x.v) * Sgn(y.v)))
    ELSE Fin(x.v * y.v)

\* x / y for the finite whole numbers the model divides (t1c1 / d1, with d1
\* in {-1, 0, 1}): x / 0 is nan for x = 0 and a signed infinity otherwise.
FDivWhole(x, y) ==
    IF y = 0 THEN (IF x = 0 THEN NaN ELSE Inf(Sgn(x)))
    ELSE Fin((x * Sgn(y)) \div (y * Sgn(y)))

\* 1.0 in the units of a probability.
PhiOne == 100000

\* The standard normal CDF at z standard deviations, rounded to 1/PhiOne;
\* beyond the table it rounds to 0 and to 1, as float64 does further out.
PhiTable ==
    [z \in -4..4 |->
        CASE z = -4 -> 3 [] z = -3 -> 135 [] z = -2 -> 2275 [] z = -1 -> 15866
          [] z = 0 -> 50000
          [] z = 1 -> 84134 [] z = 2 -> 97725 [] z = 3 -> 99865
          [] z = 4 -> 99997]

\* fncdf(x, mu, sd) = norm.cdf(x, mu, sd) with sd = 1.
fncdf(x, mu) ==
    LET z == FSub(x, mu)
    IN  IF z.k = "nan" THEN NaN
        ELSE IF z.k = "inf" THEN (IF z.v < 0 THEN Fin(0) ELSE Fin(PhiOne))
        ELSE IF z.v < -4 THEN Fin(0)
        ELSE IF z.v > 4 THEN Fin(PhiOne)
        ELSE Fin(PhiTable[z.v])

\* mass / area: a probability, kept as the fraction n/d when it is finite.
Prob(mass, area) ==
    IF mass.k = "nan" \/ area.k = "nan" THEN [k |-> "nan", n |-> 0, d |-> 1]
    ELSE IF area.v = 0
         THEN (IF mass.v = 0 THEN [k |-> "nan", n |-> 0, d |-> 1]
               ELSE [k |-> "inf", n |-> Sgn(mass.v), d |-> 1])
    ELSE [k |-> "fin", n |-> mass.v, d |-> area.v]

RECURSIVE Log2Floor(_)
Log2Floor(n) == IF n <= 1 THEN 0 ELSE 1 + Log2Floor(n \div 2)

\* np.log(p): nan for a negative p, -inf at 0; a finite logarithm is kept in
\* fixed point (whole binary orders of magnitude).
NpLog(p) ==
    IF p.k = "nan" THEN NaN
    ELSE IF p.k = "inf" THEN (IF p.n > 0 THEN Inf(1) ELSE NaN)
    ELSE IF p.n < 0 THEN NaN
    ELSE IF p.n = 0 THEN Inf(-1)
    ELSE Fin(Log2Floor(p.n) - Log2Floor(p.d))

RECURSIVE FSum(_)
FSum(q) == IF q = <<>> THEN Fin(0) ELSE FAdd(Head(q), FSum(Tail(q)))

-----------------------------------------------------------------------------
(* fit_meta_d_logL(parameters, inputObj)                                   *)

\* eval(constant_criterion), with constant_criterion = 'meta_d1 * (t1c1 / d1)'.
ConstantCriterion(meta_d1, t1c1, d1) ==
    FMul(Fin(meta_d1), FDivWhole(t1c1, d1))

\* t2c1x: -inf, the criteria below the type-1 criterion, the type-1
\* criterion (0), the criteria above it, +inf.
CriteriaWithSentinels(t2c1, nRatings) ==
    <<Inf(-1)>> \o [i \in 1..(nRatings - 1) |-> Fin(t2c1[i])]
        \o <<Fin(0)>>
        \o [i \in 1..(Len(t2c1) - (nRatings - 1)) |->
               Fin(t2c1[nRatings - 1 + i])]
        \o <<Inf(1)>>

\* The mutant of Safeguard: only the infinite values are replaced.
SafeguardInfOnly(logL) ==
    IF logL.k = "inf" THEN [k |-> "fin", v |-> -1, e |-> 300] ELSE logL

\* if np.isinf(logL) or np.isnan(logL): logL = -1e+300
Safeguard(logL) ==
    IF logL.k = "inf" \/ logL.k = "nan"
    THEN [k |-> "fin", v |-> -1, e |-> 300]
    ELSE logL

\* The locals and the result of one evaluation.  meta_d1 is a whole even
\* number, so that the means are whole.
LogLFrame(parameters, inputObj) ==
    LET meta_d1 == parameters[1]
        t2c1 == Tail(parameters)
        nRatings == inputObj.nRatings
        cc == ConstantCriterion(meta_d1, inputObj.t1c1, inputObj.d1)
        S1mu == FSub(Fin(-(meta_d1 \div 2)), cc)
        S2mu == FSub(Fin(meta_d1 \div 2), cc)
        t1c1 == Fin(0)
        nC_rS1 == [i \in 1..nRatings |-> inputObj.nR_S1[i]]
        nI_rS1 == [i \in 1..nRatings |-> inputObj.nR_S2[i]]
        nC_rS2 == [i \in 1..nRatings |-> inputObj.nR_S2[i + nRatings]]
        nI_rS2 == [i \in 1..nRatings |-> inputObj.nR_S1[i + nRatings]]
        C_area_rS1 == fncdf(t1c1, S1mu)
        I_area_rS1 == fncdf(t1c1, S2mu)
        C_area_rS2 == FSub(Fin(PhiOne), fncdf(t1c1, S2mu))
        I_area_rS2 == FSub(Fin(PhiOne), fncdf(t1c1, S1mu))
        x == CriteriaWithSentinels(t2c1, nRatings)
        Upper(c, mu) == FSub(Fin(PhiOne), fncdf(c, mu))
        prC_rS1 == [i \in 1..nRatings |->
            Prob(FSub(fncdf(x[i + 1], S1mu), fncdf(x[i], S1mu)), C_area_rS1)]
        prI_rS1 == [i \in 1..nRatings |->
            Prob(FSub(fncdf(x[i + 1], S2mu), fncdf(x[i], S2mu)), I_area_rS1)]
        prC_rS2 == [i \in 1..nRatings |->
            Prob(FSub(Upper(x[nRatings + i], S2mu),
                      Upper(x[nRatings + i + 1], S2mu)), C_area_rS2)]
        prI_rS2 == [i \in 1..nRatings |->
            Prob(FSub(Upper(x[nRatings + i], S1mu),
                      Upper(x[nRatings + i + 1], S1mu)), I_area_rS2)]
        logL == FSum([i \in 1..nRatings |->
            FAdd(FAdd(FAdd(FMul(Fin(nC_rS1[i]), NpLog(prC_rS1[i])),
                           FMul(Fin(nI_rS1[i]), NpLog(prI_rS1[i]))),
                      FMul(Fin(nC_rS2[i]), NpLog(prC_rS2[i]))),
                 FMul(Fin(nI_rS2[i]), NpLog(prI_rS2[i])))])
    IN  [pc |-> "done", parameters |-> parameters, inputObj |-> inputObj,
         prC_rS1 |-> prC_rS1, prI_rS1 |-> prI_rS1,
         prC_rS2 |-> prC_rS2, prI_rS2 |-> prI_rS2,
         logL |-> logL, ret |-> FNeg(Safeguard(logL))]

\* The inputs.  The counts only multiply the log-probabilities: every cell
\* of nR_S1 holds one count and every cell of nR_S2 another.  d1 and t1c1 are
\* the type-1 d' and criterion that fit_meta_d_MLE hands over; d1 is 0 when
\* the hit rate equals the false-alarm rate.
InitLogL ==
    /\ \E K \in 1..MaxK, meta_d1 \in {-2, 0, 2}, d1 \in {0, 1},
          t1c1 \in {-1, 0, 1}, a \in 0..MaxCount, b \in 0..MaxCount :
        \E t2c1 \in [1..(2 * K - 2) -> -MaxCrit..MaxCrit] :
            ll = [pc |-> "called",
                  parameters |-> <<meta_d1>> \o t2c1,
                  inputObj |-> [nR_S1 |-> [i \in 1..(2 * K) |-> a],
                                nR_S2 |-> [i \in 1..(2 * K) |-> b],
                                nRatings |-> K, d1 |-> d1, t1c1 |-> t1c1]]
    /\ dp = Idle
    /\ t2c = Idle
    /\ mle = Idle

LogLReturn ==
    /\ ll.pc = "called"
    /\ ll' = LogLFrame(ll.parameters, ll.inputObj)
    /\ UNCHANGED <<dp, t2c, mle>>

NextLogL == LogLReturn

SpecLogL == InitLogL /\ [][NextLogL]_vars

\* The ordering constraints on the criteria of a parameter vector: strictly
\* increasing, those below the type-1 criterion at most 0 and those above
\* at least 0.
OrderedCriteria(parameters, nRatings) ==
    LET t2c1 == Tail(parameters)
    IN  /\ \A i \in 1..(Len(t2c1) - 1) : t2c1[i] < t2c1[i + 1]
        /\ \A i \in 1..Len(t2c1) :
               IF i <= nRatings - 1 THEN t2c1[i] <= 0 ELSE t2c1[i] >= 0

RECURSIVE SumN(_)
SumN(pr) == IF pr = <<>> THEN 0 ELSE Head(pr).n + SumN(Tail(pr))

\* K probabilities, each a number, that sum to 1.
SumsToOne(pr, K) ==
    /\ Len(pr) = K
    /\ \A i \in 1..K : pr[i].k = "fin" /\ pr[i].d = pr[1].d
    /\ SumN(pr) = pr[1].d

\* C1: in fit_meta_d_logL, for every K >= 1, all counts and every parameter
\* vector whose criteria satisfy the ordering constraints, each of prC_rS1,
\* prI_rS1, prC_rS2 and prI_rS2 has K entries that sum to 1.
C1_ProbabilitiesSumToOne ==
    (ll.pc = "done" /\ OrderedCriteria(ll.parameters, ll.inputObj.nRatings)) =>
        /\ SumsToOne(ll.prC_rS1, ll.inputObj.nRatings)
        /\ SumsToOne(ll.prI_rS1, ll.inputObj.nRatings)
        /\ SumsToOne(ll.prC_rS2, ll.inputObj.nRatings)
        /\ SumsToOne(ll.prI_rS2, ll.inputObj.nRatings)

\* What holds of the code: the same, whenever the type-1 d' handed over is
\* not 0 (the constant criterion is then a number).
ProbabilitiesSumToOneUnlessD1Zero ==
    (/\ ll.pc = "done"
     /\ ll.inputObj.d1 # 0
     /\ OrderedCriteria(ll.parameters, ll.inputObj.nRatings)) =>
        /\ SumsToOne(ll.prC_rS1, ll.inputObj.nRatings)
        /\ SumsToOne(ll.prI_rS1, ll.inputObj.nRatings)
        /\ SumsToOne(ll.prC_rS2, ll.inputObj.nRatings)
        /\ SumsToOne(ll.prI_rS2, ll.inputObj.nRatings)

\* C2: fit_meta_d_logL never returns a non-finite value: a summed
\* log-likelihood that is +inf, -inf or NaN is replaced by -1e300, so that
\* 1e300 is returned; otherwise the negated log-likelihood is returned.
C2_ReturnIsFinite ==
    ll.pc = "done" =>
        /\ ll.ret.k = "fin"
        /\ (ll.logL.k # "fin" => ll.ret = [k |-> "fin", v |-> 1, e |-> 300])
        /\ (ll.logL.k = "fin" => ll.ret = Fin(-ll.logL.v))

\* C2's case: a bin of probability 0 with a count of 0 (0 * -inf) made the
\* sum NaN, and 1e300 was returned.
C2_Witness ==
    /\ ll.pc = "done"
    /\ \E i \in 1..ll.inputObj.nRatings :
           ll.prC_rS1[i].k = "fin" /\ ll.prC_rS1[i].n = 0
    /\ ll.inputObj.d1 # 0
    /\ ll.logL.k = "nan"
    /\ ll.ret = [k |-> "fin", v |-> 1, e |-> 300]

-----------------------------------------------------------------------------
(* fit_meta_d_MLE(nR_S1, nR_S2), on lists of Python ints (what             *)
(* trials2counts returns).  The function is followed block by block:       *)
(* validation, zero-count warning, constraints and bounds, initial guess,  *)
(* minimization, packaging.                                                *)
(*                                                                         *)
(* A float computed from norm.ppf is kept with its class: "nan", "pinf",   *)
(* "ninf", or finite with its sign "neg", "zero", "pos" ("fin" when the    *)
(* sign is not determined).  norm.ppf is strictly increasing and odd       *)
(* about 1/2, which fixes the signs of the differences and sums below.     *)

\* The class of -(norm.ppf(a) + norm.ppf(b)) / 2, for rates in [0, 1].
PpfNegMean(a, b) ==
    LET ca == PpfClass(a)
        cb == PpfClass(b)
    IN  IF ca = "nan" \/ cb = "nan" THEN "nan"
        ELSE IF ca = "pinf" THEN (IF cb = "ninf" THEN "nan" ELSE "ninf")
        ELSE IF ca = "ninf" THEN (IF cb = "pinf" THEN "nan" ELSE "pinf")
        ELSE IF cb = "pinf" THEN "ninf"
        ELSE IF cb = "ninf" THEN "pinf"
        ELSE Sign(a.d * b.d - a.n * b.d - b.n * a.d)

ClassSgn(c) ==
    IF c \in {"pinf", "pos"} THEN 1 ELSE IF c \in {"ninf", "neg"} THEN -1 ELSE 0

IsInfClass(c) == c \in {"pinf", "ninf"}

SignedInf(sgn) == IF sgn < 0 THEN "ninf" ELSE "pinf"

\* x / y on numpy floats: nothing is raised at y = 0.
ClassDiv(x, y) ==
    IF x = "nan" \/ y = "nan" THEN "nan"
    ELSE IF IsInfClass(x)
         THEN (IF IsInfClass(y) THEN "nan"
               ELSE IF y = "zero" THEN x
               ELSE SignedInf(ClassSgn(x) * ClassSgn(y)))
    ELSE IF IsInfClass(y) THEN "zero"
    ELSE IF y = "zero"
         THEN (IF x = "zero" THEN "nan" ELSE SignedInf(ClassSgn(x)))
    ELSE Sign(ClassSgn(x) * ClassSgn(y))

ClassMul(x, y) ==
    IF x = "nan" \/ y = "nan" THEN "nan"
    ELSE IF IsInfClass(x) \/ IsInfClass(y)
         THEN (IF x = "zero" \/ y = "zero" THEN "nan"
               ELSE SignedInf(ClassSgn(x) * ClassSgn(y)))
    ELSE Sign(ClassSgn(x) * ClassSgn(y))

ClassSub(x, y) ==
    IF x = "nan" \/ y = "nan" THEN "nan"
    ELSE IF IsInfClass(x) THEN (IF y = x THEN "nan" ELSE x)
    ELSE IF IsInfClass(y) THEN SignedInf(-ClassSgn(y))
    ELSE IF y = "zero" THEN x
    ELSE "fin"

\* sum(v[from:]) with a 0-based `from`.
SumFrom(v, from) == SumSeq(SubSeq(v, from + 1, Len(v)))

HasZero(v) == \E i \in 1..Len(v) : v[i] = 0

\* The mutant of ValidationRaises: only the parity of nR_S1 is checked.
ValidationRaisesOddOnly(nR_S1, nR_S2) == (Len(nR_S1) % 2) # 0

\* Lines 386-389: nR_S1 of odd length, or lengths that differ.
ValidationRaises(nR_S1, nR_S2) ==
    \/ (Len(nR_S1) % 2) # 0
    \/ Len(nR_S1) # Len(nR_S2)

Zeros(n) == [i \in 1..n |-> 0]

\* The mutant of ConstraintRow: one leading zero too few.
ConstraintRowShifted(ii, nCriteria) ==
    Zeros(ii) \o <<1, -1>> \o Zeros((nCriteria - 2) - ii)

\* tempArow of the loop turn ii (0-based).
ConstraintRow(ii, nCriteria) ==
    Zeros(ii + 1) \o <<1, -1>> \o Zeros((nCriteria - 2) - ii - 1)

\* -1e-5
MinusEps == [k |-> "fin", v |-> -1, e |-> -5]

\* The rows of A: for ii in range(nCriteria-2).
ConstraintMatrix(nCriteria) ==
    [r \in 1..(nCriteria - 2) |-> ConstraintRow(r - 1, nCriteria)]

Repeat(x, n) == [i \in 1..n |-> x]

NoFit == [M_ratio |-> "none"]

MLEFrame(nR_S1, nR_S2) ==
    [pc |-> "called", nR_S1 |-> nR_S1, nR_S2 |-> nR_S2, exc |-> "none",
     printed |-> FALSE, nRatings |-> 0,
     A |-> <<>>, lb |-> <<>>, ub |-> <<>>, LB |-> <<>>, UB |-> <<>>,
     ratingHR |-> <<>>, ratingFAR |-> <<>>, fninvArgs |-> {},
     d1 |-> "none", t1c1 |-> "none", guess |-> <<>>,
     minimized |-> FALSE, meta_d1 |-> "none", fit |-> NoFit]

Reverse(v) == [i \in 1..Len(v) |-> v[Len(v) + 1 - i]]

\* The second vector of a call, given the first: the same vector, its mirror
\* image, all ones, all zeros, one more in each cell, and vectors one or two
\* cells longer or shorter.
Variants(v) ==
    {v, Reverse(v), Repeat(1, Len(v)), Repeat(0, Len(v)),
     [i \in 1..Len(v) |-> v[i] + 1],
     v \o <<1>>, SubSeq(v, 1, Len(v) - 1),
     v \o <<1, 1>>, SubSeq(v, 1, Len(v) - 2)}

InitMLE ==
    /\ \E n \in 0..(2 * MaxK + 1) :
        \E v \in [1..n -> 0..MaxCount] :
            \E w \in Variants(v) : mle = MLEFrame(v, w)
    /\ dp = Idle
    /\ t2c = Idle
    /\ ll = Idle

\* The validation raises (raise of a str: a TypeError).
MLEValidateRaise ==
    /\ mle.pc = "called"
    /\ ValidationRaises(mle.nR_S1, mle.nR_S2)
    /\ mle' = [mle EXCEPT !.pc = "raised", !.exc = "TypeError"]
    /\ UNCHANGED <<dp, t2c, ll>>

MLEValidateOk ==
    /\ mle.pc = "called"
    /\ ~ValidationRaises(mle.nR_S1, mle.nR_S2)
    /\ mle' = [mle EXCEPT !.pc = "validated"]
    /\ UNCHANGED <<dp, t2c, ll>>

\* Lines 390-404: the warning is printed when a cell is 0.
MLEWarn ==
    /\ mle.pc = "validated"
    /\ mle' = [mle EXCEPT !.pc = "warned",
                          !.printed = HasZero(mle.nR_S1) \/ HasZero(mle.nR_S2)]
    /\ UNCHANGED <<dp, t2c, ll>>

\* Lines 406-439.  With empty vectors nCriteria is -1 and np.ones(-1)
\* raises a ValueError.
MLEConstraints ==
    /\ mle.pc = "warned"
    /\ LET nRatings == Len(mle.nR_S1) \div 2
           nCriteria == 2 * nRatings - 1
           half == nRatings - 1
           A == ConstraintMatrix(nCriteria)
       IN  IF nRatings = 0
           THEN mle' = [mle EXCEPT !.pc = "raised", !.exc = "ValueError"]
           ELSE mle' = [mle EXCEPT
                    !.pc = "constrained", !.nRatings = nRatings,
                    !.A = A,
                    !.ub = Repeat(MinusEps, Len(A)),
                    !.lb = Repeat(Inf(-1), Len(A)),
                    !.LB = <<-10>> \o Repeat(-20, half) \o Repeat(0, half),
                    !.UB = <<10>> \o Repeat(0, half) \o Repeat(20, half)]
    /\ UNCHANGED <<dp, t2c, ll>>

\* Lines 444-464.  sum(...) / sum(nR) on Python ints raises
\* ZeroDivisionError when a vector sums to 0; norm.ppf is applied to the
\* rates as they are.
MLEGuess ==
    /\ mle.pc = "constrained"
    /\ LET K == mle.nRatings
           ratingHR == [c \in 1..(2 * K - 1) |->
                           Rat(SumFrom(mle.nR_S2, c), SumSeq(mle.nR_S2))]
           ratingFAR == [c \in 1..(2 * K - 1) |->
                           Rat(SumFrom(mle.nR_S1, c), SumSeq(mle.nR_S1))]
           d1 == PpfDiff(ratingHR[K], ratingFAR[K])
           c1 == [c \in 1..(2 * K - 1) |-> PpfNegMean(ratingHR[c], ratingFAR[c])]
           t1c1 == c1[K]
           t2c1 == [i \in 1..(2 * K - 2) |-> IF i < K THEN c1[i] ELSE c1[i + 1]]
           cc == ClassMul(d1, ClassDiv(t1c1, d1))
       IN  IF SumSeq(mle.nR_S2) = 0 \/ SumSeq(mle.nR_S1) = 0
           THEN mle' = [mle EXCEPT !.pc = "raised",
                                   !.exc = "ZeroDivisionError"]
           ELSE mle' = [mle EXCEPT
                    !.pc = "guessed",
                    !.ratingHR = ratingHR, !.ratingFAR = ratingFAR,
                    !.fninvArgs = {ratingHR[c] : c \in 1..(2 * K - 1)}
                                  \cup {ratingFAR[c] : c \in 1..(2 * K - 1)},
                    !.d1 = d1, !.t1c1 = t1c1,
                    !.guess = <<d1>> \o
                        [i \in 1..(2 * K - 2) |-> ClassSub(t2c1[i], cc)]]
    /\ UNCHANGED <<dp, t2c, ll>>

IsFinite(c) == c \in {"neg", "zero", "pos", "fin"}

\* Lines 473-479.  minimize is scipy's: what it returns is not decided by
\* this file.  The fitted meta-d' is any number within its bounds, and
\* possibly NaN when the search starts from a guess that is not finite.
MLEMinimize ==
    /\ mle.pc = "guessed"
    /\ \E x0 \in {"neg", "zero", "pos", "nan"} :
        /\ x0 = "nan" => \E i \in 1..Len(mle.guess) : ~IsFinite(mle.guess[i])
        /\ mle' = [mle EXCEPT !.pc = "minimized", !.minimized = TRUE,
                              !.meta_d1 = x0]
    /\ UNCHANGED <<dp, t2c, ll>>

\* An observed type-2 rate taken on numpy ints: 0 / 0 is nan.
NpRate(a, b) == IF b = 0 THEN "nan" ELSE Rat(a, b)

\* Lines 483-582.  The observed rates of the "S2" responses are taken on
\* Python ints and raise ZeroDivisionError at a zero sum; those of the "S1"
\* responses are taken on numpy ints (np.flip).  With s = 1, da = d1 and
\* meta_da = meta_d1.
MLEPackage ==
    /\ mle.pc = "minimized"
    /\ LET K == mle.nRatings
           I_nR_rS2 == SubSeq(mle.nR_S1, K + 1, 2 * K)
           C_nR_rS2 == SubSeq(mle.nR_S2, K + 1, 2 * K)
           I_nR_rS1 == Reverse(SubSeq(mle.nR_S2, 1, K))
           C_nR_rS1 == Reverse(SubSeq(mle.nR_S1, 1, K))
           da == mle.d1
           meta_da == mle.meta_d1
       IN  IF K >= 2 /\ (SumSeq(I_nR_rS2) = 0 \/ SumSeq(C_nR_rS2) = 0)
           THEN mle' = [mle EXCEPT !.pc = "raised",
                                   !.exc = "ZeroDivisionError"]
           ELSE mle' = [mle EXCEPT
                    !.pc = "done",
                    !.fit = [da |-> da, meta_da |-> meta_da,
                             M_diff |-> ClassSub(meta_da, da),
                             M_ratio |-> ClassDiv(meta_da, da),
                             obs_FAR2_rS2 |-> [i \in 1..(K - 1) |->
                                 Rat(SumFrom(I_nR_rS2, i), SumSeq(I_nR_rS2))],
                             obs_HR2_rS2 |-> [i \in 1..(K - 1) |->
                                 Rat(SumFrom(C_nR_rS2, i), SumSeq(C_nR_rS2))],
                             obs_FAR2_rS1 |-> [i \in 1..(K - 1) |->
                                 NpRate(SumFrom(I_nR_rS1, i), SumSeq(I_nR_rS1))],
                             obs_HR2_rS1 |-> [i \in 1..(K - 1) |->
                                 NpRate(SumFrom(C_nR_rS1, i), SumSeq(C_nR_rS1))]]]
    /\ UNCHANGED <<dp, t2c, ll>>

NextMLE ==
    \/ MLEValidateRaise
    \/ MLEValidateOk
    \/ MLEWarn
    \/ MLEConstraints
    \/ MLEGuess
    \/ MLEMinimize
    \/ MLEPackage

SpecMLE == InitMLE /\ [][NextMLE]_vars

\* C3: for K ratings the inequality system has one row per adjacent pair of
\* type-2 criteria (2K-3 rows for K >= 2, none for K = 1); every row spans
\* the 2K-1 parameters, with +1 on type-2 criterion i (column i+1, after the
\* meta-d' column), -1 on type-2 criterion i+1 and 0 elsewhere, lower bound
\* -inf and upper bound -1e-5.
C3_ConstraintRows ==
    mle.nRatings >= 1 =>
        LET K == mle.nRatings
            pairs == IF K >= 2 THEN 2 * K - 3 ELSE 0
        IN  /\ Len(mle.A) = pairs
            /\ Len(mle.lb) = pairs
            /\ Len(mle.ub) = pairs
            /\ \A i \in 1..pairs :
                /\ Len(mle.A[i]) = 2 * K - 1
                /\ \A j \in 1..(2 * K - 1) :
                       mle.A[i][j] = (IF j = i + 1 THEN 1
                                      ELSE IF j = i + 2 THEN -1 ELSE 0)
                /\ mle.lb[i] = [k |-> "inf", v |-> -1, e |-> 0]
                /\ mle.ub[i] = [k |-> "fin", v |-> -1, e |-> -5]

\* C3's case: the system of a call with K = 2 has been built, with its one
\* row.
C3_Witness ==
    /\ mle.pc = "constrained"
    /\ mle.nRatings = 2
    /\ mle.A = <<(<<0, 1, -1>>)>>

\* C4: in the initial estimate no cumulative hit rate or false-alarm rate
\* reaches the inverse CDF as exactly 0 or 1: the inverse CDF is only ever
\* applied to rates strictly inside (0, 1).
C4_InverseCdfNeverAtZeroOrOne ==
    \A r \in mle.fninvArgs : Inside01(r)

\* C5: for vectors that pass validation and hold a cell of 0, nothing is
\* raised: the warning is printed and the call goes on to return its result.
C5_ZeroCellsNeverRaise ==
    (/\ mle.pc # "called"
     /\ ~ValidationRaises(mle.nR_S1, mle.nR_S2)
     /\ (HasZero(mle.nR_S1) \/ HasZero(mle.nR_S2))) =>
        /\ mle.pc # "raised"
        /\ (mle.pc # "validated" => mle.printed)

LengthsInvalid(nR_S1, nR_S2) ==
    \/ Len(nR_S1) # Len(nR_S2)
    \/ Len(nR_S1) % 2 = 1
    \/ Len(nR_S2) % 2 = 1

\* C7: when nR_S1 and nR_S2 differ in length or have an odd length, the call
\* raises, and it does so before the warning is printed, before any
\* constraint, bound or initial guess is built and before the optimizer is
\* invoked; no result is returned.
C7_FailsFast ==
    (mle.pc # "idle" /\ LengthsInvalid(mle.nR_S1, mle.nR_S2)) =>
        /\ mle.pc \in {"called", "raised"}
        /\ (mle.pc = "called" => ENABLED MLEValidateRaise)
        /\ (mle.pc = "called" => ~ENABLED MLEValidateOk)
        /\ (mle.pc = "raised" => mle.exc = "TypeError")
        /\ ~mle.printed
        /\ mle.A = <<>> /\ mle.lb = <<>> /\ mle.ub = <<>>
        /\ mle.LB = <<>> /\ mle.UB = <<>>
        /\ mle.guess = <<>>
        /\ ~mle.minimized
        /\ mle.fit = NoFit

\* C7's case: vectors of even but different lengths, one holding a 0, were
\* rejected.
C7_Witness ==
    /\ mle.pc = "raised"
    /\ Len(mle.nR_S1) = 2
    /\ Len(mle.nR_S2) = 4
    /\ HasZero(mle.nR_S1)

====
